---------------------------- MODULE Spec2Model ----------------------------
(***************************************************************************)
(* A model of the go232 serial port library (serial_linux.go): the Serial  *)
(* structure, its public operations, the ioctl bridge and validateConfig.  *)
(* The operating system is modelled by the set of open handles, each       *)
(* handle's non-blocking flag and the device's terminal attributes; every  *)
(* OS call made by an operation is logged in the record of the last call.  *)
(***************************************************************************)
EXTENDS Integers, Sequences, FiniteSets, TLC

(***************************************************************************)
(* Bounds of the model.                                                    *)
(***************************************************************************)
\* how many characters may follow the three positions validateConfig reads
MaxExtra == 1
\* how many times the OS open call may succeed in one behaviour
MaxOpens == 2
\* longest byte buffer handed to Read or Write
MaxBuf == 1

(***************************************************************************)
(* Kernel constants of golang.org/x/sys/unix (linux, generic termios).     *)
(***************************************************************************)
CS5 == 0
CS6 == 16
CS7 == 32
CS8 == 48
CSTOPB == 64
PARENB == 256
PARODD == 512
IGNPAR == 4
CREAD == 128
CLOCAL == 2048
VMIN == 6
VTIME == 5
NCCS == 19
TCSETS == 21506
TCFLSH == 21515
TCSBRKP == 21541
TCIOFLUSH == 2
EBADFD == 77

(***************************************************************************)
(* Bitwise or of two unsigned numbers (Go's | on uint32).                  *)
(***************************************************************************)
RECURSIVE BitOr(_, _)
BitOr(a, b) ==
    IF a = 0 THEN b
    ELSE IF b = 0 THEN a
    ELSE (IF (a % 2 = 1) \/ (b % 2 = 1) THEN 1 ELSE 0)
         + 2 * BitOr(a \div 2, b \div 2)

(***************************************************************************)
(* The lookup tables.  A mode string is a sequence of one-character        *)
(* strings, so cfg[0] of the source is cfg[1] here.                        *)
(***************************************************************************)
baudMap ==
    (50 :> 1) @@ (75 :> 2) @@ (110 :> 3) @@ (134 :> 4) @@ (150 :> 5) @@
    (200 :> 6) @@ (300 :> 7) @@ (600 :> 8) @@ (1200 :> 9) @@ (1800 :> 10) @@
    (2400 :> 11) @@ (4800 :> 12) @@ (9600 :> 13) @@ (19200 :> 14) @@
    (38400 :> 15) @@ (57600 :> 4097) @@ (115200 :> 4098) @@
    (230400 :> 4099) @@ (460800 :> 4100) @@ (500000 :> 4101) @@
    (576000 :> 4102) @@ (921600 :> 4103) @@ (1000000 :> 4104) @@
    (1152000 :> 4105) @@ (1500000 :> 4106) @@ (2000000 :> 4107) @@
    (2500000 :> 4108) @@ (3000000 :> 4109) @@ (3500000 :> 4110) @@
    (4000000 :> 4111)

dataBitsMap == ("5" :> CS5) @@ ("6" :> CS6) @@ ("7" :> CS7) @@ ("8" :> CS8)

stopBitsMap == ("1" :> 0) @@ ("2" :> CSTOPB)

parityMapOddAsEven ==
    ("N" :> 0) @@ ("O" :> PARENB) @@ ("E" :> PARENB)

parityMap ==
    ("N" :> 0) @@ ("O" :> BitOr(PARENB, PARODD)) @@ ("E" :> PARENB)

(***************************************************************************)
(* validateConfig.  The result is a record: rate and flags, the error      *)
(* message ("" for nil), and panic, TRUE when indexing the mode string     *)
(* past its end stops the call with a run-time panic instead of a return.  *)
(***************************************************************************)
ErrBaud == "Invalid baud rate parameter."
ErrDataBits == "Invalid data bits parameter."
ErrParity == "Invalid parity parameter."

VReturn(rate, flags, err) ==
    [rate |-> rate, flags |-> flags, err |-> err, panic |-> FALSE]

VPanic == [rate |-> 0, flags |-> 0, err |-> "", panic |-> TRUE]

\* mutant: the mode string is looked at before the baud rate
validateConfigModeFirst(baud, cfg) ==
    IF Len(cfg) < 1 THEN VPanic
    ELSE IF cfg[1] \notin DOMAIN dataBitsMap THEN VReturn(0, 0, ErrDataBits)
    ELSE IF baud \notin DOMAIN baudMap THEN VReturn(0, 0, ErrBaud)
    ELSE IF Len(cfg) < 2 THEN VPanic
    ELSE IF cfg[2] \notin DOMAIN parityMap THEN VReturn(0, 0, ErrParity)
    ELSE IF Len(cfg) < 3 THEN VPanic
    ELSE IF cfg[3] \notin DOMAIN stopBitsMap THEN VReturn(0, 0, ErrParity)
    ELSE VReturn(baudMap[baud],
                 BitOr(BitOr(dataBitsMap[cfg[1]], parityMap[cfg[2]]),
                       stopBitsMap[cfg[3]]),
                 "")

\* mutant: flags = tmp instead of flags |= tmp for the stop bits
validateConfigAssign(baud, cfg) ==
    IF baud \notin DOMAIN baudMap THEN VReturn(0, 0, ErrBaud)
    ELSE IF Len(cfg) < 1 THEN VPanic
    ELSE IF cfg[1] \notin DOMAIN dataBitsMap THEN VReturn(0, 0, ErrDataBits)
    ELSE IF Len(cfg) < 2 THEN VPanic
    ELSE IF cfg[2] \notin DOMAIN parityMap THEN VReturn(0, 0, ErrParity)
    ELSE IF Len(cfg) < 3 THEN VPanic
    ELSE IF cfg[3] \notin DOMAIN stopBitsMap THEN VReturn(0, 0, ErrParity)
    ELSE VReturn(baudMap[baud], stopBitsMap[cfg[3]], "")

\* mutant: the named results are returned as they stand when a field fails
validateConfigPartial(baud, cfg) ==
    IF baud \notin DOMAIN baudMap THEN VReturn(0, 0, ErrBaud)
    ELSE IF Len(cfg) < 1 THEN VPanic
    ELSE IF cfg[1] \notin DOMAIN dataBitsMap
         THEN VReturn(baudMap[baud], 0, ErrDataBits)
    ELSE IF Len(cfg) < 2 THEN VPanic
    ELSE IF cfg[2] \notin DOMAIN parityMap
         THEN VReturn(baudMap[baud], dataBitsMap[cfg[1]], ErrParity)
    ELSE IF Len(cfg) < 3 THEN VPanic
    ELSE IF cfg[3] \notin DOMAIN stopBitsMap
         THEN VReturn(baudMap[baud],
                      BitOr(dataBitsMap[cfg[1]], parityMap[cfg[2]]),
                      ErrParity)
    ELSE VReturn(baudMap[baud],
                 BitOr(BitOr(dataBitsMap[cfg[1]], parityMap[cfg[2]]),
                       stopBitsMap[cfg[3]]),
                 "")

validateConfig(baud, cfg) ==
    IF baud \notin DOMAIN baudMap THEN VReturn(0, 0, ErrBaud)
    ELSE IF Len(cfg) < 1 THEN VPanic
    ELSE IF cfg[1] \notin DOMAIN dataBitsMap THEN VReturn(0, 0, ErrDataBits)
    ELSE IF Len(cfg) < 2 THEN VPanic
    ELSE IF cfg[2] \notin DOMAIN parityMap THEN VReturn(0, 0, ErrParity)
    ELSE IF Len(cfg) < 3 THEN VPanic
    ELSE IF cfg[3] \notin DOMAIN stopBitsMap THEN VReturn(0, 0, ErrParity)
    ELSE VReturn(baudMap[baud],
                 BitOr(BitOr(dataBitsMap[cfg[1]], parityMap[cfg[2]]),
                       stopBitsMap[cfg[3]]),
                 "")

(***************************************************************************)
(* Inputs.  A mode string is up to ModeFields characters (the positions    *)
(* validateConfig reads) followed by up to MaxExtra more.                  *)
(***************************************************************************)
ModeFields == 3

SeqsUpTo(S, n) == UNION {[1..k -> S] : k \in 0..n}

Chars == {"5", "6", "7", "8", "N", "O", "E", "1", "2", "3"}
ExtraChars == {"X", "1"}
BadBauds == {0, 1, 9601}

CfgOver(S) ==
    {p \o x : p \in SeqsUpTo(S, ModeFields), x \in SeqsUpTo(ExtraChars, MaxExtra)}

\* inputs of the validator on its own
AllBauds == DOMAIN baudMap \cup BadBauds
AllCfgs == CfgOver(Chars)

\* inputs of SetBaud in the port's state machine: well-formed mode strings,
\* one wrong character in each position, too short ones and a too long one
PortBauds == {9600, 115200, 1}
PortCfgs ==
    {<<"8", "N", "1">>, <<"7", "E", "2">>,
     <<"9", "N", "1">>, <<"8", "X", "1">>, <<"8", "N", "3">>,
     <<>>, <<"8">>, <<"8", "N">>, <<"8", "N", "1", "X">>}
PortNames == {"/dev/ttyS0", "/dev/ttyUSB0"}

\* error codes the kernel may hand back (0 is success)
OpenErrnos == {0, 2}
CloseErrnos == {0, 5}
IoctlErrnos == {0, 25}
FcntlErrnos == {0, 9}
IoErrnos == {0, 11}

WellFormed(cfg) ==
    /\ Len(cfg) = 3
    /\ cfg[1] \in {"5", "6", "7", "8"}
    /\ cfg[2] \in {"N", "O", "E"}
    /\ cfg[3] \in {"1", "2"}

(***************************************************************************)
(* Values: errors, terminal attribute blocks, logged OS calls.             *)
(***************************************************************************)
Nil == 0

Err(kind, nm, req, code) ==
    [kind |-> kind, name |-> nm, req |-> req, code |-> code]

NoErr == Err("nil", "", "", 0)
\* fmt.Errorf("Serial port '%s' not open.", s.Name)
NotOpen(nm) == Err("not open", nm, "", 0)
\* fmt.Errorf("Serial port '%s' already open.", s.Name)
AlreadyOpen(nm) == Err("already open", nm, "", 0)
\* the error validateConfig made, handed on unchanged
ValidateErr(msg) == Err(msg, "", "", 0)
\* fmt.Errorf("ioctl( '%s', TCSETS, &t ) error: %d\n", s.Name, errno)
IoctlErr(nm, code) == Err("ioctl", nm, "TCSETS", code)
\* a bare unix.Errno
Errno(code) == Err("errno", "", "", code)
\* the *os.PathError of os.OpenFile, File.Read and File.Write
PathErr(op, nm, code) == Err("PathError", nm, op, code)

ZeroTermios ==
    [Iflag |-> 0, Oflag |-> 0, Cflag |-> 0, Lflag |-> 0, Line |-> 0,
     Cc |-> [i \in 0..(NCCS - 1) |-> 0], Ispeed |-> 0, Ospeed |-> 0]

\* mutant: the output speed is not filled in
TermiosNoOspeed(rate, flags) ==
    [ZeroTermios EXCEPT
        !.Iflag = IGNPAR,
        !.Cflag = BitOr(BitOr(BitOr(CREAD, CLOCAL), rate), flags),
        !.Ispeed = rate,
        !.Cc = [@ EXCEPT ![VMIN] = 1, ![VTIME] = 4]]

\* the block SetBaud assembles from a validated rate and flags
Termios(rate, flags) ==
    [ZeroTermios EXCEPT
        !.Iflag = IGNPAR,
        !.Cflag = BitOr(BitOr(BitOr(CREAD, CLOCAL), rate), flags),
        !.Ispeed = rate,
        !.Ospeed = rate,
        !.Cc = [@ EXCEPT ![VMIN] = 1, ![VTIME] = 4]]

\* one call into the OS and the code rc it answered; ptr says that the
\* argument points at block t
OsCall(call, fd, req, arg, ptr, t, rc) ==
    [call |-> call, fd |-> fd, req |-> req, arg |-> arg, ptr |-> ptr, t |-> t,
     rc |-> rc]

(***************************************************************************)
(* State.                                                                  *)
(***************************************************************************)
VARIABLES
    name,      \* Serial.Name
    file,      \* Serial.file: Nil or the handle it holds
    opened,    \* how many handles the OS has handed out so far
    osFiles,   \* the OS: open handle -> [nonblock], the handle's status flag
    devAttr,   \* the OS: [set, t], the attributes last applied to the device
    panicked,  \* the process was stopped by a run-time panic
    last,      \* the last call of a public operation, its result, its OS calls
    vIn,       \* validator on its own: the arguments
    vOut       \* validator on its own: [called, res]

vars == <<name, file, opened, osFiles, devAttr, panicked, last, vIn, vOut>>
portVars == <<name, file, opened, osFiles, devAttr, panicked, last>>

Result(op, pre, baud, cfg, buf, n, err, panic, calls) ==
    [op |-> op, pre |-> pre, baud |-> baud, cfg |-> cfg, buf |-> buf,
     n |-> n, err |-> err, panic |-> panic, calls |-> calls]

Init ==
    /\ name \in PortNames
    /\ file = Nil
    /\ opened = 0
    /\ osFiles = <<>>
    /\ devAttr = [set |-> FALSE, t |-> ZeroTermios]
    /\ panicked = FALSE
    /\ last = Result("new", Nil, 0, <<>>, 0, 0, NoErr, FALSE, <<>>)
    /\ vIn = [baud |-> 0, cfg |-> <<>>]
    /\ vOut = [called |-> FALSE, res |-> VReturn(0, 0, "")]

(***************************************************************************)
(* The device-control bridge, Serial.ioctl.  rc is what the kernel answers *)
(* if it is asked.  The result is the errno and the OS calls made.         *)
(***************************************************************************)
\* mutant: the absent-handle guard is missing and the call goes out anyway
ioctlNoGuard(f, req, arg, ptr, t, rc) ==
    [errno |-> rc, calls |-> <<OsCall("ioctl", f, req, arg, ptr, t, rc)>>]

ioctl(f, req, arg, ptr, t, rc) ==
    IF f = Nil
    THEN [errno |-> EBADFD, calls |-> <<>>]
    ELSE [errno |-> rc, calls |-> <<OsCall("ioctl", f, req, arg, ptr, t, rc)>>]

\* the OS side of closing handle f and of changing its non-blocking flag
Released(f) == [h \in DOMAIN osFiles \ {f} |-> osFiles[h]]
WithNonblock(f, b) == [osFiles EXCEPT ![f] = [nonblock |-> b]]

(***************************************************************************)
(* Serial.Open.  rc is the outcome of os.OpenFile.                         *)
(***************************************************************************)
\* mutant: the already-open check is missing
OpenCallNoGuard(rc) ==
    LET call == OsCall("open", Nil, 0, 0, FALSE, ZeroTermios, rc) IN
    /\ (rc = 0) => opened < MaxOpens
    /\ IF rc # 0
       THEN /\ last' = Result("Open", file, 0, <<>>, 0, 0,
                              PathErr("open", name, rc), FALSE, <<call>>)
            /\ UNCHANGED <<file, opened, osFiles>>
       ELSE /\ opened' = opened + 1
            /\ file' = opened + 1
            /\ osFiles' = (opened + 1 :> [nonblock |-> TRUE]) @@ osFiles
            /\ last' = Result("Open", file, 0, <<>>, 0, 0, NoErr, FALSE,
                              <<call>>)
    /\ UNCHANGED <<name, devAttr, panicked>>

\* mutant: the handle is stored before the error of os.OpenFile is looked at
OpenCallStoresOnError(rc) ==
    LET call == OsCall("open", Nil, 0, 0, FALSE, ZeroTermios, rc) IN
    /\ file = Nil => opened < MaxOpens
    /\ IF file # Nil
       THEN /\ last' = Result("Open", file, 0, <<>>, 0, 0, AlreadyOpen(name),
                              FALSE, <<>>)
            /\ UNCHANGED <<file, opened, osFiles>>
       ELSE /\ opened' = opened + 1
            /\ file' = opened + 1
            /\ osFiles' = IF rc # 0 THEN osFiles
                          ELSE (opened + 1 :> [nonblock |-> TRUE]) @@ osFiles
            /\ last' = Result("Open", file, 0, <<>>, 0, 0,
                              IF rc # 0 THEN PathErr("open", name, rc)
                              ELSE NoErr,
                              FALSE, <<call>>)
    /\ UNCHANGED <<name, devAttr, panicked>>

\* mutant: the device is opened without O_NONBLOCK
OpenCallBlocking(rc) ==
    LET call == OsCall("open", Nil, 0, 0, FALSE, ZeroTermios, rc) IN
    /\ (file = Nil /\ rc = 0) => opened < MaxOpens
    /\ IF file # Nil
       THEN /\ last' = Result("Open", file, 0, <<>>, 0, 0, AlreadyOpen(name),
                              FALSE, <<>>)
            /\ UNCHANGED <<file, opened, osFiles>>
       ELSE IF rc # 0
       THEN /\ last' = Result("Open", file, 0, <<>>, 0, 0,
                              PathErr("open", name, rc), FALSE, <<call>>)
            /\ UNCHANGED <<file, opened, osFiles>>
       ELSE /\ opened' = opened + 1
            /\ file' = opened + 1
            /\ osFiles' = (opened + 1 :> [nonblock |-> FALSE]) @@ osFiles
            /\ last' = Result("Open", file, 0, <<>>, 0, 0, NoErr, FALSE,
                              <<call>>)
    /\ UNCHANGED <<name, devAttr, panicked>>

OpenCall(rc) ==
    LET call == OsCall("open", Nil, 0, 0, FALSE, ZeroTermios, rc) IN
    /\ (file = Nil /\ rc = 0) => opened < MaxOpens
    /\ IF file # Nil
       THEN /\ last' = Result("Open", file, 0, <<>>, 0, 0, AlreadyOpen(name),
                              FALSE, <<>>)
            /\ UNCHANGED <<file, opened, osFiles>>
       ELSE IF rc # 0
       THEN /\ last' = Result("Open", file, 0, <<>>, 0, 0,
                              PathErr("open", name, rc), FALSE, <<call>>)
            /\ UNCHANGED <<file, opened, osFiles>>
       ELSE \* O_RDWR|O_NOCTTY|O_NONBLOCK: the new handle is non-blocking
            /\ opened' = opened + 1
            /\ file' = opened + 1
            /\ osFiles' = (opened + 1 :> [nonblock |-> TRUE]) @@ osFiles
            /\ last' = Result("Open", file, 0, <<>>, 0, 0, NoErr, FALSE,
                              <<call>>)
    /\ UNCHANGED <<name, devAttr, panicked>>

Open == ~panicked /\ \E rc \in OpenErrnos : OpenCall(rc) /\ UNCHANGED <<vIn, vOut>>

(***************************************************************************)
(* Serial.Close.  rc is the outcome of File.Close, which Close drops; the  *)
(* OS releases the handle whatever it answers.                             *)
(***************************************************************************)
\* mutant: the result of File.Close is returned
CloseCallReturnsErr(rc) ==
    /\ IF file # Nil
       THEN /\ osFiles' = Released(file)
            /\ file' = Nil
            /\ last' = Result("Close", file, 0, <<>>, 0, 0,
                              IF rc = 0 THEN NoErr
                              ELSE PathErr("close", name, rc),
                              FALSE,
                              <<OsCall("close", file, 0, 0, FALSE, ZeroTermios, rc)>>)
       ELSE /\ last' = Result("Close", file, 0, <<>>, 0, 0, NoErr, FALSE, <<>>)
            /\ UNCHANGED <<file, osFiles>>
    /\ UNCHANGED <<name, opened, devAttr, panicked>>

\* mutant: the handle is forgotten without being closed
CloseCallLeaks(rc) ==
    /\ file' = Nil
    /\ last' = Result("Close", file, 0, <<>>, 0, 0, NoErr, FALSE, <<>>)
    /\ UNCHANGED <<name, opened, osFiles, devAttr, panicked>>

CloseCall(rc) ==
    /\ IF file # Nil
       THEN /\ osFiles' = Released(file)
            /\ file' = Nil
            /\ last' = Result("Close", file, 0, <<>>, 0, 0, NoErr, FALSE,
                              <<OsCall("close", file, 0, 0, FALSE, ZeroTermios, rc)>>)
       ELSE /\ last' = Result("Close", file, 0, <<>>, 0, 0, NoErr, FALSE, <<>>)
            /\ UNCHANGED <<file, osFiles>>
    /\ UNCHANGED <<name, opened, devAttr, panicked>>

Close == ~panicked /\ \E rc \in CloseErrnos : CloseCall(rc) /\ UNCHANGED <<vIn, vOut>>

(***************************************************************************)
(* Serial.SetBaud.  rc answers the TCSETS ioctl, nb answers SetNonblock.   *)
(***************************************************************************)
\* mutant: the attribute block goes to the device before the inputs are
\* validated
SetBaudCallIoctlFirst(baud, cfg, rc, nb) ==
    LET v == validateConfig(baud, cfg)
        t == Termios(IF baud \in DOMAIN baudMap THEN baudMap[baud] ELSE 0, 0)
        r == ioctl(file, TCSETS, 0, TRUE, t, rc)
    IN
    IF file = Nil
    THEN /\ last' = Result("SetBaud", file, baud, cfg, 0, 0, NotOpen(name),
                           FALSE, <<>>)
         /\ UNCHANGED <<name, file, opened, osFiles, devAttr, panicked>>
    ELSE /\ devAttr' = IF r.errno = 0 THEN [set |-> TRUE, t |-> t] ELSE devAttr
         /\ last' = Result("SetBaud", file, baud, cfg, 0, 0,
                           IF v.panic THEN NoErr
                           ELSE IF v.err # "" THEN ValidateErr(v.err)
                           ELSE IF r.errno # 0 THEN IoctlErr(name, r.errno)
                           ELSE NoErr,
                           v.panic, r.calls)
         /\ panicked' = v.panic
         /\ UNCHANGED <<name, file, opened, osFiles>>

\* mutant: the non-blocking flag is cleared before the attribute block is
\* sent, so it is cleared also when the device refuses the block
SetBaudCallClearFirst(baud, cfg, rc, nb) ==
    LET v == validateConfig(baud, cfg)
        t == Termios(v.rate, v.flags)
        r == ioctl(file, TCSETS, 0, TRUE, t, rc)
        fcntl == OsCall("setnonblock", file, 0, 0, FALSE, ZeroTermios, nb)
    IN
    IF file = Nil
    THEN /\ last' = Result("SetBaud", file, baud, cfg, 0, 0, NotOpen(name),
                           FALSE, <<>>)
         /\ UNCHANGED <<name, file, opened, osFiles, devAttr, panicked>>
    ELSE IF v.panic
    THEN /\ last' = Result("SetBaud", file, baud, cfg, 0, 0, NoErr, TRUE, <<>>)
         /\ panicked' = TRUE
         /\ UNCHANGED <<name, file, opened, osFiles, devAttr>>
    ELSE IF v.err # ""
    THEN /\ last' = Result("SetBaud", file, baud, cfg, 0, 0,
                           ValidateErr(v.err), FALSE, <<>>)
         /\ UNCHANGED <<name, file, opened, osFiles, devAttr, panicked>>
    ELSE /\ osFiles' = IF nb = 0 THEN WithNonblock(file, FALSE) ELSE osFiles
         /\ devAttr' = IF nb = 0 /\ r.errno = 0
                       THEN [set |-> TRUE, t |-> t] ELSE devAttr
         /\ last' = Result("SetBaud", file, baud, cfg, 0, 0,
                           IF nb # 0 THEN Errno(nb)
                           ELSE IF r.errno # 0 THEN IoctlErr(name, r.errno)
                           ELSE NoErr,
                           FALSE,
                           IF nb # 0 THEN <<fcntl>> ELSE <<fcntl>> \o r.calls)
         /\ UNCHANGED <<name, file, opened, panicked>>

\* mutant: the port is closed when clearing the non-blocking flag fails
SetBaudCallClosesOnError(baud, cfg, rc, nb) ==
    LET v == validateConfig(baud, cfg)
        t == Termios(v.rate, v.flags)
        r == ioctl(file, TCSETS, 0, TRUE, t, rc)
        fcntl == OsCall("setnonblock", file, 0, 0, FALSE, ZeroTermios, nb)
        close == OsCall("close", file, 0, 0, FALSE, ZeroTermios, 0)
    IN
    IF file = Nil
    THEN /\ last' = Result("SetBaud", file, baud, cfg, 0, 0, NotOpen(name),
                           FALSE, <<>>)
         /\ UNCHANGED <<name, file, opened, osFiles, devAttr, panicked>>
    ELSE IF v.panic
    THEN /\ last' = Result("SetBaud", file, baud, cfg, 0, 0, NoErr, TRUE, <<>>)
         /\ panicked' = TRUE
         /\ UNCHANGED <<name, file, opened, osFiles, devAttr>>
    ELSE IF v.err # ""
    THEN /\ last' = Result("SetBaud", file, baud, cfg, 0, 0,
                           ValidateErr(v.err), FALSE, <<>>)
         /\ UNCHANGED <<name, file, opened, osFiles, devAttr, panicked>>
    ELSE IF r.errno # 0
    THEN /\ last' = Result("SetBaud", file, baud, cfg, 0, 0,
                           IoctlErr(name, r.errno), FALSE, r.calls)
         /\ UNCHANGED <<name, file, opened, osFiles, devAttr, panicked>>
    ELSE /\ devAttr' = [set |-> TRUE, t |-> t]
         /\ osFiles' = IF nb = 0 THEN WithNonblock(file, FALSE)
                       ELSE Released(file)
         /\ file' = IF nb = 0 THEN file ELSE Nil
         /\ last' = Result("SetBaud", file, baud, cfg, 0, 0,
                           IF nb = 0 THEN NoErr ELSE Errno(nb),
                           FALSE,
                           IF nb = 0 THEN r.calls \o <<fcntl>>
                           ELSE r.calls \o <<fcntl, close>>)
         /\ UNCHANGED <<name, opened, panicked>>

SetBaudCall(baud, cfg, rc, nb) ==
    LET v == validateConfig(baud, cfg)
        t == Termios(v.rate, v.flags)
        r == ioctl(file, TCSETS, 0, TRUE, t, rc)
        fcntl == OsCall("setnonblock", file, 0, 0, FALSE, ZeroTermios, nb)
    IN
    IF file = Nil
    THEN /\ last' = Result("SetBaud", file, baud, cfg, 0, 0, NotOpen(name),
                           FALSE, <<>>)
         /\ UNCHANGED <<name, file, opened, osFiles, devAttr, panicked>>
    ELSE IF v.panic
    THEN /\ last' = Result("SetBaud", file, baud, cfg, 0, 0, NoErr, TRUE, <<>>)
         /\ panicked' = TRUE
         /\ UNCHANGED <<name, file, opened, osFiles, devAttr>>
    ELSE IF v.err # ""
    THEN /\ last' = Result("SetBaud", file, baud, cfg, 0, 0,
                           ValidateErr(v.err), FALSE, <<>>)
         /\ UNCHANGED <<name, file, opened, osFiles, devAttr, panicked>>
    ELSE IF r.errno # 0
    THEN /\ last' = Result("SetBaud", file, baud, cfg, 0, 0,
                           IoctlErr(name, r.errno), FALSE, r.calls)
         /\ UNCHANGED <<name, file, opened, osFiles, devAttr, panicked>>
    ELSE /\ devAttr' = [set |-> TRUE, t |-> t]
         /\ osFiles' = IF nb = 0 THEN WithNonblock(file, FALSE) ELSE osFiles
         /\ last' = Result("SetBaud", file, baud, cfg, 0, 0,
                           IF nb = 0 THEN NoErr ELSE Errno(nb),
                           FALSE, r.calls \o <<fcntl>>)
         /\ UNCHANGED <<name, file, opened, panicked>>

SetBaud ==
    /\ ~panicked
    /\ \E baud \in PortBauds, cfg \in PortCfgs,
          rc \in IoctlErrnos, nb \in FcntlErrnos :
            SetBaudCall(baud, cfg, rc, nb)
    /\ UNCHANGED <<vIn, vOut>>

(***************************************************************************)
(* Serial.Write and Serial.Read on a buffer of len bytes.  The OS moves n  *)
(* bytes and answers rc.                                                   *)
(***************************************************************************)
\* mutant: the not-open check is missing and the nil handle is used, which
\* os.File answers with its own invalid-argument error
WriteCallNoGuard(len, n, rc) ==
    /\ last' = Result("Write", file, 0, <<>>, len, IF file = Nil THEN 0 ELSE n,
                      IF file = Nil THEN Err("invalid argument", "", "", 0)
                      ELSE IF rc = 0 THEN NoErr
                      ELSE PathErr("write", name, rc),
                      FALSE,
                      IF file = Nil THEN <<>>
                      ELSE <<OsCall("write", file, 0, len, FALSE, ZeroTermios, rc)>>)
    /\ UNCHANGED <<name, file, opened, osFiles, devAttr, panicked>>

WriteCall(len, n, rc) ==
    /\ IF file = Nil
       THEN last' = Result("Write", file, 0, <<>>, len, 0, NotOpen(name),
                           FALSE, <<>>)
       ELSE last' = Result("Write", file, 0, <<>>, len, n,
                           IF rc = 0 THEN NoErr ELSE PathErr("write", name, rc),
                           FALSE,
                           <<OsCall("write", file, 0, len, FALSE, ZeroTermios, rc)>>)
    /\ UNCHANGED <<name, file, opened, osFiles, devAttr, panicked>>

Write ==
    /\ ~panicked
    /\ \E len \in 0..MaxBuf : \E n \in 0..len, rc \in IoErrnos :
            WriteCall(len, n, rc)
    /\ UNCHANGED <<vIn, vOut>>

\* mutant: the handle is dropped when the OS read fails
ReadCallDropsHandle(len, n, rc) ==
    /\ IF file = Nil
       THEN /\ last' = Result("Read", file, 0, <<>>, len, 0, NotOpen(name),
                              FALSE, <<>>)
            /\ UNCHANGED <<file, osFiles>>
       ELSE /\ last' = Result("Read", file, 0, <<>>, len, n,
                              IF rc = 0 THEN NoErr
                              ELSE PathErr("read", name, rc),
                              FALSE,
                              <<OsCall("read", file, 0, len, FALSE, ZeroTermios, rc)>>)
            /\ file' = IF rc = 0 THEN file ELSE Nil
            /\ osFiles' = IF rc = 0 THEN osFiles ELSE Released(file)
    /\ UNCHANGED <<name, opened, devAttr, panicked>>

ReadCall(len, n, rc) ==
    /\ IF file = Nil
       THEN last' = Result("Read", file, 0, <<>>, len, 0, NotOpen(name),
                           FALSE, <<>>)
       ELSE last' = Result("Read", file, 0, <<>>, len, n,
                           IF rc = 0 THEN NoErr ELSE PathErr("read", name, rc),
                           FALSE,
                           <<OsCall("read", file, 0, len, FALSE, ZeroTermios, rc)>>)
    /\ UNCHANGED <<name, file, opened, osFiles, devAttr, panicked>>

Read ==
    /\ ~panicked
    /\ \E len \in 0..MaxBuf : \E n \in 0..len, rc \in IoErrnos :
            ReadCall(len, n, rc)
    /\ UNCHANGED <<vIn, vOut>>

(***************************************************************************)
(* Serial.Flush and Serial.SendBreak.  rc answers the ioctl.               *)
(***************************************************************************)
\* mutant: the not-open check is missing, so the bridge's guard answers
FlushCallNoGuard(rc) ==
    LET r == ioctl(file, TCFLSH, TCIOFLUSH, FALSE, ZeroTermios, rc) IN
    /\ last' = Result("Flush", file, 0, <<>>, 0, 0,
                      IF r.errno # 0 THEN Errno(r.errno) ELSE NoErr,
                      FALSE, r.calls)
    /\ UNCHANGED <<name, file, opened, osFiles, devAttr, panicked>>

\* mutant: a refused flush request is sent a second time
FlushCallRetry(rc) ==
    LET r == ioctl(file, TCFLSH, TCIOFLUSH, FALSE, ZeroTermios, rc) IN
    /\ IF file = Nil
       THEN last' = Result("Flush", file, 0, <<>>, 0, 0, NotOpen(name),
                           FALSE, <<>>)
       ELSE last' = Result("Flush", file, 0, <<>>, 0, 0,
                           IF r.errno # 0 THEN Errno(r.errno) ELSE NoErr,
                           FALSE,
                           IF r.errno # 0 THEN r.calls \o r.calls ELSE r.calls)
    /\ UNCHANGED <<name, file, opened, osFiles, devAttr, panicked>>

FlushCall(rc) ==
    LET r == ioctl(file, TCFLSH, TCIOFLUSH, FALSE, ZeroTermios, rc) IN
    /\ IF file = Nil
       THEN last' = Result("Flush", file, 0, <<>>, 0, 0, NotOpen(name),
                           FALSE, <<>>)
       ELSE last' = Result("Flush", file, 0, <<>>, 0, 0,
                           IF r.errno # 0 THEN Errno(r.errno) ELSE NoErr,
                           FALSE, r.calls)
    /\ UNCHANGED <<name, file, opened, osFiles, devAttr, panicked>>

Flush == ~panicked /\ \E rc \in IoctlErrnos : FlushCall(rc) /\ UNCHANGED <<vIn, vOut>>

\* mutant: the break is requested with TCSBRK's argument convention, a
\* non-zero duration
SendBreakCallWrongArg(rc) ==
    LET r == ioctl(file, TCSBRKP, 1, FALSE, ZeroTermios, rc) IN
    /\ IF file = Nil
       THEN last' = Result("SendBreak", file, 0, <<>>, 0, 0, NotOpen(name),
                           FALSE, <<>>)
       ELSE last' = Result("SendBreak", file, 0, <<>>, 0, 0,
                           IF r.errno # 0 THEN Errno(r.errno) ELSE NoErr,
                           FALSE, r.calls)
    /\ UNCHANGED <<name, file, opened, osFiles, devAttr, panicked>>

\* mutant: the not-open check is missing, so the bridge's guard answers
SendBreakCallNoGuard(rc) ==
    LET r == ioctl(file, TCSBRKP, 0, FALSE, ZeroTermios, rc) IN
    /\ last' = Result("SendBreak", file, 0, <<>>, 0, 0,
                      IF r.errno # 0 THEN Errno(r.errno) ELSE NoErr,
                      FALSE, r.calls)
    /\ UNCHANGED <<name, file, opened, osFiles, devAttr, panicked>>

SendBreakCall(rc) ==
    LET r == ioctl(file, TCSBRKP, 0, FALSE, ZeroTermios, rc) IN
    /\ IF file = Nil
       THEN last' = Result("SendBreak", file, 0, <<>>, 0, 0, NotOpen(name),
                           FALSE, <<>>)
       ELSE last' = Result("SendBreak", file, 0, <<>>, 0, 0,
                           IF r.errno # 0 THEN Errno(r.errno) ELSE NoErr,
                           FALSE, r.calls)
    /\ UNCHANGED <<name, file, opened, osFiles, devAttr, panicked>>

SendBreak ==
    /\ ~panicked
    /\ \E rc \in IoctlErrnos : SendBreakCall(rc)
    /\ UNCHANGED <<vIn, vOut>>

Next == Open \/ Close \/ SetBaud \/ Write \/ Read \/ Flush \/ SendBreak

Spec == Init /\ [][Next]_vars

(***************************************************************************)
(* The validator on its own: the arguments are drawn at the start and one  *)
(* call of validateConfig is made on them.  No port is involved.           *)
(***************************************************************************)
InitV ==
    /\ name \in PortNames
    /\ file = Nil
    /\ opened = 0
    /\ osFiles = <<>>
    /\ devAttr = [set |-> FALSE, t |-> ZeroTermios]
    /\ panicked = FALSE
    /\ last = Result("new", Nil, 0, <<>>, 0, 0, NoErr, FALSE, <<>>)
    /\ vIn \in [baud : AllBauds, cfg : AllCfgs]
    /\ vOut = [called |-> FALSE, res |-> VReturn(0, 0, "")]

Validate ==
    /\ ~vOut.called
    /\ vOut' = [called |-> TRUE, res |-> validateConfig(vIn.baud, vIn.cfg)]
    /\ UNCHANGED <<vIn, name, file, opened, osFiles, devAttr, panicked, last>>

NextV == Validate

SpecV == InitV /\ [][NextV]_vars

(***************************************************************************)
(* One SetBaud on a port that has just been opened, over all the inputs    *)
(* of the validator: the start is the state a successful Open leaves.      *)
(***************************************************************************)
InitS ==
    /\ name \in PortNames
    /\ file = 1
    /\ opened = 1
    /\ osFiles = (1 :> [nonblock |-> TRUE])
    /\ devAttr = [set |-> FALSE, t |-> ZeroTermios]
    /\ panicked = FALSE
    /\ last = Result("Open", Nil, 0, <<>>, 0, 0, NoErr, FALSE,
                     <<OsCall("open", Nil, 0, 0, FALSE, ZeroTermios, 0)>>)
    /\ vIn \in [baud : AllBauds, cfg : AllCfgs]
    /\ vOut = [called |-> FALSE, res |-> VReturn(0, 0, "")]

SetBaudOnce ==
    /\ last.op = "Open"
    /\ \E rc \in IoctlErrnos, nb \in FcntlErrnos :
            SetBaudCall(vIn.baud, vIn.cfg, rc, nb)
    /\ UNCHANGED <<vIn, vOut>>

NextS == SetBaudOnce

SpecS == InitS /\ [][NextS]_vars

(***************************************************************************)
(* The port's operations together with direct calls of the bridge, as code *)
(* inside the package can make them in any state of the port.  The errno   *)
(* the bridge returns is recorded as the call's error, 0 included.         *)
(***************************************************************************)
BridgeReqs == {<<TCFLSH, TCIOFLUSH>>, <<TCSBRKP, 0>>}

Bridge ==
    /\ ~panicked
    /\ \E q \in BridgeReqs, rc \in IoctlErrnos :
          LET r == ioctl(file, q[1], q[2], FALSE, ZeroTermios, rc) IN
          last' = Result("ioctl", file, 0, <<>>, 0, 0, Errno(r.errno),
                         FALSE, r.calls)
    /\ UNCHANGED <<name, file, opened, osFiles, devAttr, panicked, vIn, vOut>>

NextB == Open \/ Close \/ Write \/ Read \/ Flush \/ SendBreak \/ Bridge

SpecB == Init /\ [][NextB]_vars

(***************************************************************************)
(* Properties.                                                             *)
(***************************************************************************)
GuardedOps == {"Write", "Read", "Flush", "SendBreak", "SetBaud"}

\* the supported set and the mode grammar, as the interface documents them
SupportedBauds ==
    {50, 75, 110, 134, 150, 200, 300, 600, 1200, 1800, 2400, 4800, 9600,
     19200, 38400, 57600, 115200, 230400, 460800, 500000, 576000, 921600,
     1000000, 1152000, 1500000, 2000000, 2500000, 3000000, 3500000, 4000000}

\* C1: Write, Read, Flush, SendBreak and SetBaud fail with the "not open"
\* error exactly when the port held no handle when they were called; then
\* they fail so for every argument and make no OS call (and the OS side is
\* as it was); with a handle they never fail with "not open".
C1_NotOpenIffNoHandle ==
    last.op \in GuardedOps =>
        /\ (last.err.kind = "not open") <=> (last.pre = Nil)
        /\ last.pre = Nil =>
              /\ last.err = NotOpen(name)
              /\ last.calls = <<>>
              /\ last.n = 0
              /\ ~last.panic
              /\ file = Nil

\* C1 witness: SetBaud on a port closed after an Open, with a supported baud
\* and an empty mode string, failed with "not open"
C1_Witness ==
    /\ last.op = "SetBaud"
    /\ opened > 0
    /\ file = Nil
    /\ last.baud = 9600
    /\ last.cfg = <<>>
    /\ last.err = NotOpen(name)
    /\ last.calls = <<>>

\* C2: Open on a port that holds a handle fails with "already open", makes
\* no OS call and leaves the handle (and the OS side) as it was; a Close
\* right after that failed Open returns no error and leaves the port Closed.
C2_AlreadyOpen ==
    [][ /\ (last'.op = "Open" /\ file # Nil) =>
              /\ last'.err = AlreadyOpen(name)
              /\ last'.calls = <<>>
              /\ file' = file
              /\ osFiles' = osFiles
        /\ (last.op = "Open" /\ last.err.kind = "already open"
               /\ last'.op = "Close") =>
              /\ last'.err = NoErr
              /\ file' = Nil
              /\ file \notin DOMAIN osFiles' ]_vars

\* C2 witness: an Open on an Open port has just failed with "already open"
C2_Witness ==
    /\ last.op = "Open"
    /\ last.pre # Nil
    /\ last.err.kind = "already open"
    /\ file = last.pre
    /\ file \in DOMAIN osFiles

C4_OneHandleOrNone ==
    /\ file = Nil => DOMAIN osFiles = {}
    /\ file # Nil => DOMAIN osFiles = {file}
    /\ Cardinality(DOMAIN osFiles) = IF file = Nil THEN 0 ELSE 1

\* C4 witness: the port is Open on its second handle, the first is released
C4_Witness ==
    /\ opened = 2
    /\ file = 2
    /\ DOMAIN osFiles = {2}
    /\ last.op \in GuardedOps

\* C5: for every supported baud and every mode string of the grammar
\* [5678][NOE][12] validateConfig returns no error; for every baud outside
\* the supported set it returns the "invalid baud rate" error with zero
\* results, whatever the mode string is, too short ones included.
C5_SupportedAccepted ==
    vOut.called =>
        /\ (vIn.baud \in SupportedBauds /\ WellFormed(vIn.cfg)) =>
              (vOut.res.err = "" /\ ~vOut.res.panic)
        /\ vIn.baud \notin SupportedBauds =>
              vOut.res = VReturn(0, 0, ErrBaud)

\* C5 witness: an unsupported baud with an empty mode string was answered
\* with the baud error
C5_Witness ==
    /\ vOut.called
    /\ vIn.baud = 1
    /\ vIn.cfg = <<>>
    /\ vOut.res.err = ErrBaud
    /\ ~vOut.res.panic

\* C6: for a supported baud validateConfig rejects with an error every mode
\* string that is not exactly three characters of [5678][NOE][12]: shorter
\* ones, longer ones with a well-formed start, and wrong characters.
C6_RejectsMalformed ==
    (vOut.called /\ vIn.baud \in SupportedBauds /\ ~WellFormed(vIn.cfg)) =>
        (vOut.res.err # "" /\ ~vOut.res.panic)

\* C6, the too long half alone: a mode string longer than three characters
\* is rejected with an error
C6_RejectsTooLong ==
    (vOut.called /\ vIn.baud \in SupportedBauds /\ Len(vIn.cfg) > 3) =>
        vOut.res.err # ""

\* C7: no public operation panics or ends the process, for any input in
\* any reachable state: every call returns a result or an error value.
C7_NoPanic == ~panicked /\ ~last.panic

\* bit positions set in the number n
RECURSIVE Bits(_)
Bits(n) ==
    IF n = 0 THEN {}
    ELSE (IF n % 2 = 1 THEN {0} ELSE {})
         \cup {b + 1 : b \in Bits(n \div 2)}

\* C8: on success rateCode is the BaudTable entry of the baud and flagBits
\* has exactly the bits of the DataBitsTable entry of mode[0], the
\* ParityTable entry of mode[1] and the StopBitsTable entry of mode[2];
\* "8N1" gives the 8-bit-size flag alone, "7E2" gives 7-bit | even | two
\* stop bits.
C8_FlagsAreUnion ==
    (vOut.called /\ ~vOut.res.panic /\ vOut.res.err = "") =>
        /\ vIn.baud \in DOMAIN baudMap
        /\ vOut.res.rate = baudMap[vIn.baud]
        /\ Len(vIn.cfg) >= 3
        /\ Bits(vOut.res.flags) =
              Bits(dataBitsMap[vIn.cfg[1]]) \cup Bits(parityMap[vIn.cfg[2]])
                 \cup Bits(stopBitsMap[vIn.cfg[3]])
        /\ vIn.cfg = <<"8", "N", "1">> => vOut.res.flags = CS8
        /\ vIn.cfg = <<"7", "E", "2">> =>
              vOut.res.flags = CS7 + PARENB + CSTOPB

\* C8 witness: validateConfig(9600, "7E2") succeeded with the three flags
C8_Witness ==
    /\ vOut.called
    /\ vIn.baud = 9600
    /\ vIn.cfg = <<"7", "E", "2">>
    /\ vOut.res.err = ""
    /\ vOut.res.rate = 13
    /\ vOut.res.flags = 352

\* the message of the first field that fails, in the order baud, data bits,
\* parity, stop bits; a stop bits failure carries the parity message
FirstFailure(baud, cfg) ==
    IF baud \notin SupportedBauds THEN ErrBaud
    ELSE IF Len(cfg) >= 1 /\ cfg[1] \notin {"5", "6", "7", "8"}
         THEN ErrDataBits
    ELSE IF Len(cfg) >= 2 /\ cfg[2] \notin {"N", "O", "E"}
         THEN ErrParity
    ELSE IF Len(cfg) >= 3 /\ cfg[3] \notin {"1", "2"}
         THEN ErrParity
    ELSE ""

\* C9: when validateConfig returns an error, rateCode and flagBits are 0 and
\* the error is that of the first failing field in the order baud, data
\* bits, parity, stop bits; a stop bits failure has the parity message.
C9_FailureIsZeroAndFirst ==
    (vOut.called /\ ~vOut.res.panic /\ vOut.res.err # "") =>
        /\ vOut.res.rate = 0
        /\ vOut.res.flags = 0
        /\ vOut.res.err = FirstFailure(vIn.baud, vIn.cfg)

\* C9 witness: validateConfig(9600, "8N3") failed on the stop bits with the
\* parity message and zero results
C9_Witness ==
    /\ vOut.called
    /\ vIn.baud = 9600
    /\ vIn.cfg = <<"8", "N", "3">>
    /\ vOut.res = VReturn(0, 0, ErrParity)

\* C10: SetBaud on an Open port whose baud or mode string the validator
\* rejects returns the validator's error before any kernel interaction: no
\* OS call is made, the non-blocking flag and the device attributes are as
\* before and the port stays Open.  (Nor is there any OS call when the
\* validator panics.)
C10_RejectedBeforeKernel ==
    [][ (last'.op = "SetBaud" /\ file # Nil
            /\ (validateConfig(last'.baud, last'.cfg).err # ""
                   \/ validateConfig(last'.baud, last'.cfg).panic)) =>
           /\ last'.calls = <<>>
           /\ osFiles' = osFiles
           /\ devAttr' = devAttr
           /\ file' = file
           /\ ~validateConfig(last'.baud, last'.cfg).panic =>
                 last'.err =
                    ValidateErr(validateConfig(last'.baud, last'.cfg).err) ]_vars

\* C10 witness: SetBaud with an unsupported baud failed on a port that an
\* earlier SetBaud had put in blocking mode, and the port is still Open and
\* blocking
C10_Witness ==
    /\ last.op = "SetBaud"
    /\ last.baud = 1
    /\ last.err = ValidateErr(ErrBaud)
    /\ last.calls = <<>>
    /\ file # Nil
    /\ file \in DOMAIN osFiles
    /\ ~osFiles[file].nonblock
    /\ devAttr.set

\* the calls of kind k among the logged OS calls c
CallsOf(c, k) == {i \in 1..Len(c) : c[i].call = k}

\* SetBaud on an Open port with inputs the validator accepts: exactly one
\* TCSETS call on the handle comes first; a non-zero answer gives the error
\* with port name, request and code and ends the call, with the
\* non-blocking flag as flagAfterFailure says; the answer 0 is followed by
\* exactly one call clearing the non-blocking flag, whose result is returned
C11_Step(flagAfterFailure) ==
    (/\ last'.op = "SetBaud"
     /\ file # Nil
     /\ ~validateConfig(last'.baud, last'.cfg).panic
     /\ validateConfig(last'.baud, last'.cfg).err = "") =>
        LET c == last'.calls IN
        /\ Len(c) >= 1
        /\ c[1].call = "ioctl" /\ c[1].fd = file /\ c[1].req = TCSETS
        /\ Cardinality(CallsOf(c, "ioctl")) = 1
        /\ c[1].rc # 0 =>
              /\ Len(c) = 1
              /\ last'.err.name = name
              /\ last'.err.req = "TCSETS"
              /\ last'.err.code = c[1].rc
              /\ last'.err.kind = "ioctl"
              /\ flagAfterFailure
        /\ c[1].rc = 0 =>
              /\ Len(c) = 2
              /\ c[2].call = "setnonblock" /\ c[2].fd = file /\ c[2].arg = 0
              /\ last'.err = IF c[2].rc = 0 THEN NoErr ELSE Errno(c[2].rc)
              /\ c[2].rc = 0 => ~osFiles'[file].nonblock

\* C11 as stated: ... if the TCSETS call returns a non-zero code, SetBaud
\* fails with the error naming port, request and code and the non-blocking
\* flag is left set; if it returns 0 the flag is cleared exactly once and
\* the result of that step is returned.
C11_FlagLeftSet == [][C11_Step(osFiles'[file].nonblock)]_vars

\* C11 amended: as C11, but on a non-zero code the non-blocking flag is left
\* as it was before the call (set, unless an earlier SetBaud on this handle
\* had cleared it).
C11_FlagLeftAsItWas == [][C11_Step(osFiles' = osFiles)]_vars

\* C11 witness: a SetBaud on a handle an earlier SetBaud had made blocking
\* was refused by the device; the handle is still blocking
C11_Witness ==
    /\ last.op = "SetBaud"
    /\ last.err = IoctlErr(name, 25)
    /\ Len(last.calls) = 1
    /\ file # Nil
    /\ ~osFiles[file].nonblock

\* C12: on an Open port Flush issues exactly one device-control call, TCFLSH
\* with TCIOFLUSH, and SendBreak exactly one, TCSBRKP with 0; each returns no
\* error when the call answers 0 and otherwise an error carrying exactly the
\* answered code, with no retry and no change to the port or the OS side.
C12_OneControlCall ==
    [][ (last'.op \in {"Flush", "SendBreak"} /\ file # Nil) =>
           LET c == last'.calls IN
           /\ Len(c) = 1
           /\ c[1].call = "ioctl" /\ c[1].fd = file /\ ~c[1].ptr
           /\ last'.op = "Flush" =>
                 (c[1].req = TCFLSH /\ c[1].arg = TCIOFLUSH)
           /\ last'.op = "SendBreak" =>
                 (c[1].req = TCSBRKP /\ c[1].arg = 0)
           /\ c[1].rc = 0 => last'.err = NoErr
           /\ c[1].rc # 0 =>
                 (last'.err.kind # "nil" /\ last'.err.code = c[1].rc)
           /\ <<name, file, opened, osFiles, devAttr, panicked>>' =
                 <<name, file, opened, osFiles, devAttr, panicked>> ]_vars

\* C12 witness: a SendBreak on an Open port was refused with code 25 after
\* one TCSBRKP call with argument 0
C12_Witness ==
    /\ last.op = "SendBreak"
    /\ file # Nil
    /\ Len(last.calls) = 1
    /\ last.calls[1].req = TCSBRKP
    /\ last.calls[1].arg = 0
    /\ last.calls[1].rc = 25
    /\ last.err.code = 25

ControlOps == {"SetBaud", "Flush", "SendBreak"}

\* a device-control call of the last operation was refused
ControlFailed ==
    /\ last.op \in ControlOps
    /\ Len(last.calls) >= 1
    /\ last.calls[1].call = "ioctl"
    /\ last.calls[1].rc # 0

\* C13 as stated: every device-control failure surfaced by SetBaud, Flush or
\* SendBreak is an error carrying both the port name and the numeric code,
\* and the refused call is not retried.
C13_NameAndCode ==
    ControlFailed =>
        /\ last.err.name = name
        /\ last.err.code = last.calls[1].rc
        /\ Len(last.calls) = 1

\* C13 amended: every such failure is an error carrying the numeric code and
\* is not retried; SetBaud's error also carries the port name, Flush's and
\* SendBreak's is the bare error code without the port name.
C13_CodeAndNameForSetBaud ==
    ControlFailed =>
        /\ last.err.code = last.calls[1].rc
        /\ Len(last.calls) = 1
        /\ last.op = "SetBaud" => last.err = IoctlErr(name, last.calls[1].rc)
        /\ last.op # "SetBaud" => last.err = Errno(last.calls[1].rc)

\* C13 witness: a Flush was refused and returned the bare code
C13_Witness ==
    /\ last.op = "Flush"
    /\ ControlFailed
    /\ last.err = Errno(25)
    /\ last.err.name # name

\* C14: for every supported baud and well-formed mode string the block
\* SetBaud sends with TCSETS has input flags IGNPAR only, control flags with
\* exactly the bits of CREAD, CLOCAL, rateCode and flagBits, both speeds
\* equal to rateCode, Cc[VMIN] = 1, Cc[VTIME] = 4 and every other field 0;
\* it depends on the arguments of the call alone and the port's fields are
\* as before the call.
C14_AttributeBlock ==
    (/\ last.op = "SetBaud"
     /\ last.pre # Nil
     /\ last.baud \in SupportedBauds
     /\ WellFormed(last.cfg)) =>
        /\ Len(last.calls) >= 1
        /\ last.calls[1].call = "ioctl"
        /\ last.calls[1].req = TCSETS
        /\ last.calls[1].ptr
        /\ LET t == last.calls[1].t
               v == validateConfig(last.baud, last.cfg)
           IN
           /\ t.Iflag = 4
           /\ Bits(t.Cflag) =
                 {7, 11} \cup Bits(v.rate) \cup Bits(v.flags)
           /\ t.Ispeed = v.rate
           /\ t.Ospeed = v.rate
           /\ v.rate = baudMap[last.baud]
           /\ t.Cc[6] = 1
           /\ t.Cc[5] = 4
           /\ \A i \in DOMAIN t.Cc \ {5, 6} : t.Cc[i] = 0
           /\ t.Oflag = 0 /\ t.Lflag = 0 /\ t.Line = 0
        /\ file = last.pre

\* C14 witness: SetBaud(4000000, "5O2") sent 0x1BCF as control flags and
\* 0x100F as both speeds
C14_Witness ==
    /\ last.op = "SetBaud"
    /\ last.baud = 4000000
    /\ last.cfg = <<"5", "O", "2">>
    /\ Len(last.calls) >= 1
    /\ last.calls[1].t.Cflag = 7119
    /\ last.calls[1].t.Ispeed = 4111
    /\ last.calls[1].t.Ospeed = 4111

\* C15: when the OS open call fails, Open returns that error as it is and
\* the port stays Closed with no handle; the next operation still reports
\* "not open" and the next Open asks the OS again instead of failing with
\* "already open".
C15_OpenFailureLeavesClosed ==
    [][ /\ (last'.op = "Open" /\ file = Nil) =>
              /\ Len(last'.calls) = 1
              /\ last'.calls[1].call = "open"
              /\ last'.calls[1].rc # 0 =>
                    /\ last'.err = PathErr("open", name, last'.calls[1].rc)
                    /\ file' = Nil
                    /\ osFiles' = osFiles
                    /\ opened' = opened
        /\ (last.op = "Open" /\ last.err.kind = "PathError") =>
              /\ file = Nil
              /\ last'.op \in GuardedOps => last'.err = NotOpen(name)
              /\ last'.op = "Open" =>
                    /\ Len(last'.calls) = 1
                    /\ last'.calls[1].call = "open"
                    /\ last'.err.kind # "already open" ]_vars

\* C15 witness: on a port opened and closed before, the OS refused the open
\* and Open returned its error; the port holds no handle
C15_Witness ==
    /\ last.op = "Open"
    /\ opened >= 1
    /\ last.err = PathErr("open", name, 2)
    /\ file = Nil
    /\ osFiles = <<>>

\* the step is a SetBaud whose TCSETS call was accepted and whose clearing
\* of the non-blocking flag failed
FcntlFailedStep ==
    /\ last'.op = "SetBaud"
    /\ Len(last'.calls) >= 2
    /\ last'.calls[1].rc = 0
    /\ last'.calls[2].call = "setnonblock"
    /\ last'.calls[2].rc # 0

\* if the clearing of the non-blocking flag fails after an accepted TCSETS
\* call, SetBaud returns that step's error, the new attributes are applied
\* to the device, the flag is as flagAfter says and the port stays Open; the
\* next operation is accepted
C16_Step(flagAfter) ==
    /\ FcntlFailedStep =>
          /\ Len(last'.calls) = 2
          /\ last'.err = Errno(last'.calls[2].rc)
          /\ devAttr' = [set |-> TRUE, t |-> last'.calls[1].t]
          /\ file' = file
          /\ file' # Nil
          /\ file' \in DOMAIN osFiles'
          /\ flagAfter
    /\ (/\ last.op = "SetBaud"
        /\ Len(last.calls) >= 2
        /\ last.calls[2].rc # 0) =>
          /\ last'.op \in GuardedOps => last'.err.kind # "not open"
          /\ last'.op = "Close" => last'.err = NoErr

\* C16 as stated: ... SetBaud returns that step's error, the new attributes
\* stay applied, the handle stays non-blocking and the port stays Open, so a
\* later operation is still accepted.
C16_StaysNonblocking == [][C16_Step(osFiles'[file].nonblock)]_vars

\* C16 amended: as C16, but the handle's non-blocking flag stays as it was
\* before the call (non-blocking, unless an earlier SetBaud on this handle
\* had cleared it).
C16_FlagStaysAsItWas == [][C16_Step(osFiles' = osFiles)]_vars

\* C16 witness: on a fresh handle the TCSETS call was accepted and the
\* clearing failed: attributes applied, handle still non-blocking, port Open
C16_Witness ==
    /\ last.op = "SetBaud"
    /\ Len(last.calls) = 2
    /\ last.calls[2].rc # 0
    /\ last.err = Errno(9)
    /\ devAttr = [set |-> TRUE, t |-> last.calls[1].t]
    /\ file # Nil
    /\ osFiles[file].nonblock

\* C17: a handle is non-blocking right after every successful Open, and the
\* port's handle becomes blocking only in a step that is a SetBaud returning
\* no error on that same handle; so an Open port's handle is blocking only
\* if a SetBaud succeeded since the last successful Open.
C17_BlockingOnlyBySetBaud ==
    [][ /\ (last'.op = "Open" /\ last'.err = NoErr) =>
              /\ file' # Nil
              /\ file' \notin DOMAIN osFiles
              /\ osFiles'[file'].nonblock
        /\ (/\ file' # Nil
            /\ ~osFiles'[file'].nonblock
            /\ (file' \notin DOMAIN osFiles \/ osFiles[file'].nonblock)) =>
              /\ last'.op = "SetBaud"
              /\ last'.err = NoErr
              /\ file' = file ]_vars

\* C17 witness: after Open, SetBaud, Close the port was opened again: the
\* device still has the attributes, the new handle is non-blocking
C17_Witness ==
    /\ last.op = "Open"
    /\ last.err = NoErr
    /\ opened = 2
    /\ devAttr.set
    /\ file = 2
    /\ osFiles[file].nonblock

\* C18: SetBaud, Read, Write, Flush and SendBreak leave the handle as it is,
\* whether they succeed or fail; the handle changes only from none to one in
\* an Open that returns no error and from one to none in a Close; no
\* operation changes the port's name.
C18_OnlyOpenAndCloseChangeHandle ==
    [][ /\ name' = name
        /\ last'.op \in GuardedOps =>
              (file' = file /\ DOMAIN osFiles' = DOMAIN osFiles)
        /\ file' # file =>
              \/ /\ last'.op = "Open"
                 /\ last'.err = NoErr
                 /\ file = Nil
                 /\ file' # Nil
              \/ /\ last'.op = "Close"
                 /\ file # Nil
                 /\ file' = Nil ]_vars

\* C18 witness: a Read on an Open port failed in the OS and the port still
\* holds the handle it held
C18_Witness ==
    /\ last.op = "Read"
    /\ last.err.kind = "PathError"
    /\ last.pre # Nil
    /\ file = last.pre
    /\ file \in DOMAIN osFiles

\* C19: called on a port without a handle the bridge returns the fixed code
\* EBADFD and makes no device-control call; with a handle it makes exactly
\* one device-control call, on that handle, and returns the code the call
\* answered, unchanged.
C19_BridgeGuard ==
    last.op = "ioctl" =>
        /\ last.pre = Nil =>
              /\ last.err.code = EBADFD
              /\ last.calls = <<>>
        /\ last.pre # Nil =>
              /\ Len(last.calls) = 1
              /\ last.calls[1].call = "ioctl"
              /\ last.calls[1].fd = last.pre
              /\ last.pre \in DOMAIN osFiles
              /\ last.err.code = last.calls[1].rc
        /\ file = last.pre

\* C19 witness: the bridge was called on a port closed after an Open and
\* answered EBADFD without a call
C19_Witness ==
    /\ last.op = "ioctl"
    /\ opened >= 1
    /\ file = Nil
    /\ last.err.code = EBADFD
    /\ last.calls = <<>>

\* C20: through SetBaud, Flush and SendBreak the bridge's absent-handle
\* guard is never reached: an error that comes from the bridge comes from a
\* device-control call made on the handle the port holds, the code EBADFD of
\* the guard is never returned, and a port without a handle answers "not
\* open" without reaching the bridge.
C20_GuardNeverReached ==
    last.op \in ControlOps =>
        /\ last.err.code # EBADFD
        /\ last.pre = Nil =>
              (last.err = NotOpen(name) /\ last.calls = <<>>)
        /\ last.err.kind \in {"errno", "ioctl"} =>
              /\ last.pre # Nil
              /\ Len(last.calls) >= 1
              /\ last.calls[1].call = "ioctl"
              /\ last.calls[1].fd = last.pre
              /\ last.calls[1].fd \in DOMAIN osFiles

\* C20 witness: SendBreak on a port closed after an Open answered "not
\* open", not the guard's code
C20_Witness ==
    /\ last.op = "SendBreak"
    /\ opened >= 1
    /\ last.pre = Nil
    /\ last.err = NotOpen(name)
    /\ last.err.code # EBADFD
    /\ last.calls = <<>>

=============================================================================
